---- MODULE Spec2Model ----
(***************************************************************************)
(* State-machine model of src/scrape.py: scrape_tweets(), the sequential   *)
(* scroll-and-collect loop over the configured date windows, with the      *)
(* progress file and the per-window output files on disk.                  *)
(*                                                                         *)
(* The process is a single thread; the model's steps are its statements.   *)
(* The environment supplies the scan results, the measured page heights,   *)
(* errors raised by the browser driver, and external termination.          *)
(***************************************************************************)
EXTENDS Integers, Sequences, FiniteSets, Bags, TLC

(***************************************************************************)
(* Bounds.  The source iterates over 16 windows and collects 500 texts per *)
(* window; the model keeps the first NumWindows windows and scales the     *)
(* threshold of line 66 down to Threshold.                                 *)
(***************************************************************************)
NumWindows == 2
Threshold == 2
MaxRuns == 2

\* line 83: scroll_attempts >= 3
StallLimit == 3
\* The longest run of unchanged heights the model follows: two backoffs.
MaxStallRun == 2 * StallLimit

MaxTexts == Threshold + 1
Texts == 1..MaxTexts
\* document.body.scrollHeight: a page and a longer page.  The program only
\* tests two heights for equality.
Heights == {1, 2}

\* src/scrape.py:11-28
DateRangesFull ==
  << [start |-> "2024-08-09", end |-> "2024-08-15"],
     [start |-> "2024-08-16", end |-> "2024-08-22"],
     [start |-> "2024-08-23", end |-> "2024-08-29"],
     [start |-> "2024-08-30", end |-> "2024-09-13"],
     [start |-> "2024-09-14", end |-> "2024-09-19"],
     [start |-> "2024-09-20", end |-> "2024-09-26"],
     [start |-> "2024-09-27", end |-> "2024-10-03"],
     [start |-> "2024-10-04", end |-> "2024-10-18"],
     [start |-> "2024-10-19", end |-> "2024-10-24"],
     [start |-> "2024-10-25", end |-> "2024-10-31"],
     [start |-> "2024-11-01", end |-> "2024-11-07"],
     [start |-> "2024-11-08", end |-> "2024-11-22"],
     [start |-> "2024-11-23", end |-> "2024-11-28"],
     [start |-> "2024-11-29", end |-> "2024-12-05"],
     [start |-> "2024-12-06", end |-> "2024-12-12"],
     [start |-> "2024-12-13", end |-> "2024-12-19"] >>

\* The windows the model iterates over: the first NumWindows of the list.
date_ranges == SubSeq(DateRangesFull, 1, NumWindows)

\* Positions of enumerate(date_ranges), 0-based as in the source.
Windows == 0..(Len(date_ranges) - 1)

\* line 49: f"{date_range['start']}_to_{date_range['end']}"
date_key(date_range) == date_range.start \o "_to_" \o date_range.end

\* line 50: f"week{i+1}.json"
week_file(idx) == "week" \o ToString(idx + 1) \o ".json"

KeyOf(idx) == date_key(date_ranges[idx + 1])
WindowKeys == { KeyOf(w) : w \in Windows }
WeekFiles == { week_file(w) : w \in Windows }

\* A key of the progress file that belongs to no configured window.
ForeignKey == "2023-01-01_to_2023-01-07"
KeyUniverse == WindowKeys \cup {ForeignKey}

EmptyMap == [k \in {} |-> TRUE]

\* What a path of the file system holds.
Absent == [state |-> "absent"]
Partial == [state |-> "partial"]
File(d) == [state |-> "ok", data |-> d]

\* line 53: date_key in checked_ranges and checked_ranges[date_key]
IsChecked(m, k) == k \in DOMAIN m /\ m[k]

\* The same test on the content of the progress file.
FileMarks(f, k) == f.state = "ok" /\ IsChecked(f.data, k)

\* lines 69-70: for tweet in tweet_elements: tweets.add(tweet.text)
RECURSIVE AddAll(_, _)
AddAll(s, elems) ==
  IF elems = << >> THEN s
  ELSE AddAll(s \cup {Head(elems)}, Tail(elems))

\* A variant of the conversion that repeats every entry.
list_Twice(s) == [e \in s |-> 2]

\* line 94: list(tweets) has every element of the set once, in the set's
\* iteration order, which the program does not control.  The model keeps a
\* JSON array up to the order of its entries: the bag of its entries.
list(s) == [e \in s |-> 1]

\* Variants of the loop condition: one short of the threshold; one past it.
LoopCond_OffByOne(s) == Cardinality(s) < Threshold - 1
LoopCond_Inclusive(s) == Cardinality(s) <= Threshold

\* line 66: len(tweets) < 500
LoopCond(s) == Cardinality(s) < Threshold

\* line 68: what find_elements returns, as the sequence of the elements'
\* texts: no element, one, or two (the same text twice, or two texts).
ScanResults(shown) ==
  {<< >>} \cup { <<a>> : a \in shown } \cup { <<a, b>> : a, b \in shown }

\* What an earlier run left in an output file.
OldList == [e \in 1..Threshold |-> 1]

\* The texts the search of a window can ever show: more than the threshold,
\* or fewer.
Rich == Texts
Poor == 1..(Threshold - 1)
Supplies == {Rich, Poor}

\* The progress files a first run can find: none, one cut off by an earlier
\* termination, an empty object, or an object with a boolean for every
\* window, at least one of them true, and possibly with a key of no window
\* (true or false).
InitialProgress ==
  {Absent, Partial, File(EmptyMap)}
    \cup { File(m) : m \in { n \in [WindowKeys -> BOOLEAN] \cup [KeyUniverse -> BOOLEAN] :
                              \E k \in WindowKeys : n[k] } }

VARIABLES
  pc,              \* the statement the process is at, or how the last run ended
  i,               \* line 48: the loop index of enumerate(date_ranges)
  checked_ranges,  \* lines 35, 37, 97: the progress map in memory
  tweets,          \* line 58: the collected set of the window in progress
  last_height,     \* lines 63, 90
  new_height,      \* line 79
  scroll_attempts, \* lines 64, 81, 86, 88: the stall counter
  progress_file,   \* progress.json on disk
  week_files,      \* week<N>.json on disk, by file name
  avail,           \* environment: the texts the current window's search can show
  runs,            \* number of runs started so far
  loaded,          \* history: the progress map as loaded at this run's start
  done_keys,       \* history: keys whose progress write completed in this run
  collected,       \* history: the set each finished loop of this run ended with
  stall_run,       \* history: consecutive unchanged-height observations
  pauses           \* history: backoff pauses during the current stall run

vars == << pc, i, checked_ranges, tweets, last_height, new_height,
           scroll_attempts, progress_file, week_files, avail, runs,
           loaded, done_keys, collected, stall_run, pauses >>

memory == << i, checked_ranges, tweets, last_height, new_height, scroll_attempts >>
disk == << progress_file, week_files >>
history == << loaded, done_keys, collected, stall_run, pauses >>

Stopped == {"idle", "finished", "killed", "aborted"}
InWindow == {"get", "height0", "while", "scan", "scroll", "measure", "check3",
             "update", "open_week", "dump_week", "mark", "open_progress",
             "dump_progress"}
Running == {"for"} \cup InWindow
\* The statements that call the browser driver (lines 60, 63, 68, 75, 79).
DriverCalls == {"get", "height0", "scan", "scroll", "measure"}

\* Every window marked true in the progress file has its output file.
MarkedHaveFiles(pf, wf) ==
  \A w \in Windows : FileMarks(pf, KeyOf(w)) => wf[week_file(w)].state # "absent"

\* The state before a run, r runs having been started before.
InitAfter(r) ==
  /\ pc = "idle"
  /\ i = 0
  /\ checked_ranges = EmptyMap
  /\ tweets = {}
  /\ last_height = 0
  /\ new_height = 0
  /\ scroll_attempts = 0
  /\ progress_file \in InitialProgress
  /\ week_files = [f \in WeekFiles |->
                     IF \E w \in Windows :
                          f = week_file(w) /\ FileMarks(progress_file, KeyOf(w))
                     THEN File(OldList) ELSE Absent]
  /\ avail = {}
  /\ runs = r
  /\ loaded = EmptyMap
  /\ done_keys = {}
  /\ collected = EmptyMap
  /\ stall_run = 0
  /\ pauses = 0

Init == InitAfter(0)

\* The process is gone: its variables no longer exist.
MemoryLost ==
  /\ i' = 0
  /\ checked_ranges' = EmptyMap
  /\ tweets' = {}
  /\ last_height' = 0
  /\ new_height' = 0
  /\ scroll_attempts' = 0

\* lines 32-46: load the progress file, start the browser, log in.
Start ==
  /\ pc \in Stopped
  /\ runs < MaxRuns
  /\ progress_file.state # "partial"
  /\ runs' = runs + 1
  /\ checked_ranges' = IF progress_file.state = "ok" THEN progress_file.data
                       ELSE EmptyMap
  /\ loaded' = checked_ranges'
  /\ done_keys' = {}
  /\ collected' = EmptyMap
  /\ stall_run' = 0
  /\ pauses' = 0
  /\ i' = 0
  /\ pc' = "for"
  /\ UNCHANGED << tweets, last_height, new_height, scroll_attempts, disk, avail >>

\* line 35: json.load raises on a file that holds no complete JSON document.
StartLoadFails ==
  /\ pc \in Stopped
  /\ runs < MaxRuns
  /\ progress_file.state = "partial"
  /\ runs' = runs + 1
  /\ loaded' = EmptyMap
  /\ done_keys' = {}
  /\ collected' = EmptyMap
  /\ stall_run' = 0
  /\ pauses' = 0
  /\ pc' = "aborted"
  /\ UNCHANGED << memory, disk, avail >>

\* Variant of Skip that tests only whether the key is in the record
\* (`if date_key in checked_ranges:`), not its value.
Skip_OnPresence ==
  /\ pc = "for"
  /\ i < Len(date_ranges)
  /\ KeyOf(i) \in DOMAIN checked_ranges
  /\ i' = i + 1
  /\ UNCHANGED << pc, checked_ranges, tweets, last_height, new_height,
                  scroll_attempts, disk, avail, runs, history >>

\* lines 48-55: the window is marked, continue with the next one.
Skip ==
  /\ pc = "for"
  /\ i < Len(date_ranges)
  /\ IsChecked(checked_ranges, KeyOf(i))
  /\ i' = i + 1
  /\ UNCHANGED << pc, checked_ranges, tweets, last_height, new_height,
                  scroll_attempts, disk, avail, runs, history >>

\* A variant that starts a window without the test of line 53.
Enter_NoSkipTest ==
  /\ pc = "for"
  /\ i < Len(date_ranges)
  /\ tweets' = {}
  /\ pc' = "get"
  /\ UNCHANGED << i, checked_ranges, last_height, new_height, scroll_attempts,
                  disk, avail, runs, history >>

\* Variant of Enter that keeps the set of the window before (the set created
\* once, ahead of the for loop, instead of at line 58).
Enter_KeepsTweets ==
  /\ pc = "for"
  /\ i \in Windows
  /\ ~IsChecked(checked_ranges, KeyOf(i))
  /\ pc' = "get"
  /\ UNCHANGED << i, checked_ranges, tweets, last_height, new_height,
                  scroll_attempts, disk, avail, runs, history >>

\* lines 48-59: the window is not marked, start collecting it.
Enter ==
  /\ pc = "for"
  /\ i < Len(date_ranges)
  /\ ~IsChecked(checked_ranges, KeyOf(i))
  /\ tweets' = {}
  /\ pc' = "get"
  /\ UNCHANGED << i, checked_ranges, last_height, new_height, scroll_attempts,
                  disk, avail, runs, history >>

\* lines 60-61: driver.get(url), settle delay.
Navigate ==
  /\ pc = "get"
  /\ avail' \in Supplies
  /\ pc' = "height0"
  /\ UNCHANGED << memory, disk, runs, history >>

\* Variant of MeasureInitial that leaves the stall counter as the window
\* before left it (the counter set to 0 once, ahead of the for loop).
MeasureInitial_NoReset ==
  /\ pc = "height0"
  /\ \E h \in Heights : last_height' = h
  /\ stall_run' = 0
  /\ pauses' = 0
  /\ pc' = "while"
  /\ UNCHANGED << i, checked_ranges, tweets, new_height, scroll_attempts,
                  disk, avail, runs, loaded, done_keys, collected >>

\* lines 63-64: the height after navigation, the stall counter at 0.
MeasureInitial ==
  /\ pc = "height0"
  /\ \E h \in Heights : last_height' = h
  /\ scroll_attempts' = 0
  /\ stall_run' = 0
  /\ pauses' = 0
  /\ pc' = "while"
  /\ UNCHANGED << i, checked_ranges, tweets, new_height, disk, avail, runs,
                  loaded, done_keys, collected >>

\* line 66: the loop condition.
While ==
  /\ pc = "while"
  /\ IF LoopCond(tweets)
     THEN /\ pc' = "scan"
          /\ UNCHANGED << collected, stall_run, pauses >>
     ELSE /\ pc' = "open_week"
          /\ collected' = [w \in DOMAIN collected \cup {i} |->
                              IF w = i THEN tweets ELSE collected[w]]
          /\ stall_run' = 0
          /\ pauses' = 0
  /\ UNCHANGED << memory, disk, avail, runs, loaded, done_keys >>

\* Variant of Scan that leaves the loop as soon as the set is large enough
\* (`if len(tweets) >= 500: break` after line 70).
Scan_BreaksAtThreshold ==
  /\ pc = "scan"
  /\ \E r \in ScanResults(avail) : tweets' = AddAll(tweets, r)
  /\ pc' = IF LoopCond(tweets') THEN "scroll" ELSE "open_week"
  /\ collected' = IF LoopCond(tweets') THEN collected
                  ELSE [w \in DOMAIN collected \cup {i} |->
                          IF w = i THEN tweets' ELSE collected[w]]
  /\ UNCHANGED << i, checked_ranges, last_height, new_height, scroll_attempts,
                  disk, avail, runs, loaded, done_keys, stall_run, pauses >>

\* lines 68-72: scan the rendered elements, add each text to the set.
Scan ==
  /\ pc = "scan"
  /\ \E r \in ScanResults(avail) : tweets' = AddAll(tweets, r)
  /\ pc' = "scroll"
  /\ UNCHANGED << i, checked_ranges, last_height, new_height, scroll_attempts,
                  disk, avail, runs, history >>

\* lines 75-76: scroll to the bottom, randomized delay.
Scroll ==
  /\ pc = "scroll"
  /\ pc' = "measure"
  /\ UNCHANGED << memory, disk, avail, runs, history >>

\* A variant without the reset of line 88.
Measure_NoReset ==
  /\ pc = "measure"
  /\ \E h \in Heights :
       /\ h = last_height => stall_run < MaxStallRun
       /\ new_height' = h
       /\ IF h = last_height
          THEN /\ scroll_attempts' = scroll_attempts + 1
               /\ stall_run' = stall_run + 1
               /\ pauses' = pauses
               /\ pc' = "check3"
          ELSE /\ scroll_attempts' = scroll_attempts
               /\ stall_run' = 0
               /\ pauses' = 0
               /\ pc' = "update"
  /\ UNCHANGED << i, checked_ranges, tweets, last_height, disk, avail, runs,
                  loaded, done_keys, collected >>

\* lines 79-82, 87-88: measure the height after the scroll and compare it.
Measure ==
  /\ pc = "measure"
  /\ \E h \in Heights :
       /\ h = last_height => stall_run < MaxStallRun
       /\ new_height' = h
       /\ IF h = last_height
          THEN /\ scroll_attempts' = scroll_attempts + 1
               /\ stall_run' = stall_run + 1
               /\ pauses' = pauses
               /\ pc' = "check3"
          ELSE /\ scroll_attempts' = 0
               /\ stall_run' = 0
               /\ pauses' = 0
               /\ pc' = "update"
  /\ UNCHANGED << i, checked_ranges, tweets, last_height, disk, avail, runs,
                  loaded, done_keys, collected >>

\* A variant that pauses one stall late (> instead of >= at line 83).
Check3_Late ==
  /\ pc = "check3"
  /\ IF scroll_attempts > StallLimit
     THEN /\ scroll_attempts' = 0
          /\ pauses' = pauses + 1
     ELSE UNCHANGED << scroll_attempts, pauses >>
  /\ pc' = "update"
  /\ UNCHANGED << i, checked_ranges, tweets, last_height, new_height, disk,
                  avail, runs, loaded, done_keys, collected, stall_run >>

\* A variant that gives the window up on the third stall instead of pausing.
Check3_GivesUp ==
  /\ pc = "check3"
  /\ IF scroll_attempts >= StallLimit
     THEN /\ scroll_attempts' = 0
          /\ pauses' = pauses + 1
          /\ pc' = "open_week"
     ELSE /\ UNCHANGED << scroll_attempts, pauses >>
          /\ pc' = "update"
  /\ UNCHANGED << i, checked_ranges, tweets, last_height, new_height, disk,
                  avail, runs, loaded, done_keys, collected, stall_run >>

\* lines 83-86: after an unchanged height, pause if the counter reached 3.
Check3 ==
  /\ pc = "check3"
  /\ IF scroll_attempts >= StallLimit
     THEN /\ scroll_attempts' = 0
          /\ pauses' = pauses + 1
     ELSE UNCHANGED << scroll_attempts, pauses >>
  /\ pc' = "update"
  /\ UNCHANGED << i, checked_ranges, tweets, last_height, new_height, disk,
                  avail, runs, loaded, done_keys, collected, stall_run >>

\* line 90: last_height = new_height, back to the loop condition.
Update ==
  /\ pc = "update"
  /\ last_height' = new_height
  /\ pc' = "while"
  /\ UNCHANGED << i, checked_ranges, tweets, new_height, scroll_attempts, disk,
                  avail, runs, history >>

\* A variant that goes on to mark the window without writing its file.
OpenWeek_Skipped ==
  /\ pc = "open_week"
  /\ pc' = "mark"
  /\ UNCHANGED << memory, disk, avail, runs, history >>

\* Variant of OpenWeek that leaves an output file alone when one is already
\* there in full (a guard on the file's existence before line 93).
OpenWeek_KeepExisting ==
  /\ pc = "open_week"
  /\ IF week_files[week_file(i)].state = "ok"
       THEN /\ pc' = "mark"
            /\ UNCHANGED week_files
       ELSE /\ week_files' = [week_files EXCEPT ![week_file(i)] = Partial]
            /\ pc' = "dump_week"
  /\ UNCHANGED << memory, progress_file, avail, runs, history >>

\* line 93: open(week_file, "w") creates or truncates the file.
OpenWeek ==
  /\ pc = "open_week"
  /\ week_files' = [week_files EXCEPT ![week_file(i)] = Partial]
  /\ pc' = "dump_week"
  /\ UNCHANGED << memory, progress_file, avail, runs, history >>

\* line 94: json.dump(list(tweets), f) and the close of the with block.
DumpWeek ==
  /\ pc = "dump_week"
  /\ week_files' = [week_files EXCEPT ![week_file(i)] = File(list(tweets))]
  /\ pc' = "mark"
  /\ UNCHANGED << memory, progress_file, avail, runs, history >>

\* A variant that marks the key of the first window, whatever the window.
Mark_FirstKey ==
  /\ pc = "mark"
  /\ checked_ranges' = [k \in DOMAIN checked_ranges \cup {KeyOf(0)} |->
                          IF k = KeyOf(0) THEN TRUE ELSE checked_ranges[k]]
  /\ pc' = "open_progress"
  /\ UNCHANGED << i, tweets, last_height, new_height, scroll_attempts, disk,
                  avail, runs, history >>

\* line 97: checked_ranges[date_key] = True
Mark ==
  /\ pc = "mark"
  /\ checked_ranges' = [k \in DOMAIN checked_ranges \cup {KeyOf(i)} |->
                          IF k = KeyOf(i) THEN TRUE ELSE checked_ranges[k]]
  /\ pc' = "open_progress"
  /\ UNCHANGED << i, tweets, last_height, new_height, scroll_attempts, disk,
                  avail, runs, history >>

\* line 98: open(progress_file, "w") creates or truncates the file.
OpenProgress ==
  /\ pc = "open_progress"
  /\ progress_file' = Partial
  /\ pc' = "dump_progress"
  /\ UNCHANGED << memory, week_files, avail, runs, history >>

\* line 99: json.dump(checked_ranges, f), the close, and the next iteration.
DumpProgress ==
  /\ pc = "dump_progress"
  /\ progress_file' = File(checked_ranges)
  /\ done_keys' = done_keys \cup {KeyOf(i)}
  /\ i' = i + 1
  /\ pc' = "for"
  /\ UNCHANGED << checked_ranges, tweets, last_height, new_height,
                  scroll_attempts, week_files, avail, runs, loaded,
                  collected, stall_run, pauses >>

\* lines 101-102: the list is exhausted; print, quit the driver, exit.
Finish ==
  /\ pc = "for"
  /\ i >= Len(date_ranges)
  /\ pc' = "finished"
  /\ MemoryLost
  /\ avail' = {}
  /\ stall_run' = 0
  /\ pauses' = 0
  /\ UNCHANGED << disk, runs, loaded, done_keys, collected >>

\* The process is terminated from outside, at any statement.
Kill ==
  /\ pc \in Running
  /\ pc' = "killed"
  /\ MemoryLost
  /\ avail' = {}
  /\ collected' = EmptyMap
  /\ stall_run' = 0
  /\ pauses' = 0
  /\ UNCHANGED << disk, runs, loaded, done_keys >>

\* Variant of Raise with a handler that records the window in flight as done
\* and saves the record before the process ends.
Raise_SavesProgress ==
  /\ pc \in DriverCalls
  /\ pc' = "aborted"
  /\ progress_file' = File([k \in DOMAIN checked_ranges \cup {KeyOf(i)} |->
                              IF k = KeyOf(i) THEN TRUE ELSE checked_ranges[k]])
  /\ MemoryLost
  /\ avail' = {}
  /\ collected' = EmptyMap
  /\ stall_run' = 0
  /\ pauses' = 0
  /\ UNCHANGED << week_files, runs, loaded, done_keys >>

\* A driver call raises; nothing catches it and the process ends.
Raise ==
  /\ pc \in DriverCalls
  /\ pc' = "aborted"
  /\ MemoryLost
  /\ avail' = {}
  /\ collected' = EmptyMap
  /\ stall_run' = 0
  /\ pauses' = 0
  /\ UNCHANGED << disk, runs, loaded, done_keys >>

Next ==
  \/ Start
  \/ StartLoadFails
  \/ Skip
  \/ Enter
  \/ Navigate
  \/ MeasureInitial
  \/ While
  \/ Scan
  \/ Scroll
  \/ Measure
  \/ Check3
  \/ Update
  \/ OpenWeek
  \/ DumpWeek
  \/ Mark
  \/ OpenProgress
  \/ DumpProgress
  \/ Finish
  \/ Kill
  \/ Raise

Spec == Init /\ [][Next]_vars

\* The statements of the process: it executes the next one unless it is
\* terminated or a driver call raises.
Step ==
  \/ Skip \/ Enter \/ Navigate \/ MeasureInitial \/ While \/ Scan \/ Scroll
  \/ Measure \/ Check3 \/ Update \/ OpenWeek \/ DumpWeek \/ Mark
  \/ OpenProgress \/ DumpProgress \/ Finish

\* A scan that adds a text to the set.
NewTextScan == Scan /\ tweets' # tweets

\* One run, from any of the initial states: a process that keeps running,
\* and a search whose scans keep showing new texts as long as it has some.
OneRunInit == InitAfter(MaxRuns - 1)
FairSpec ==
  OneRunInit /\ [][Next]_vars /\ WF_vars(Step) /\ SF_vars(NewTextScan)

(***************************************************************************)
(* Properties.                                                             *)
(***************************************************************************)
InLoop == {"while", "scan", "scroll", "measure", "check3", "update"}
AfterLoop == {"open_week", "dump_week", "mark", "open_progress", "dump_progress"}
CutShort == {"killed", "aborted"}

\* C1: a window whose key is true in the progress record loaded at startup
\* gets no action in that run: the process is never at a statement of that
\* window (navigation, scan, scroll, write), and no step of the run changes
\* its output file.
C1_MarkedWindowUntouched ==
  /\ [](pc \in InWindow => ~IsChecked(loaded, KeyOf(i)))
  /\ [][\A w \in Windows :
          (pc \in Running /\ IsChecked(loaded, KeyOf(w)))
            => week_files'[week_file(w)] = week_files[week_file(w)]]_vars

\* A run ended normally after skipping a marked window whose file is as it was.
C1_Witness ==
  /\ pc = "finished"
  /\ \E w \in Windows :
       /\ IsChecked(loaded, KeyOf(w))
       /\ w \notin DOMAIN collected
       /\ week_files[week_file(w)] = File(OldList)
  /\ \E w \in Windows : w \in DOMAIN collected

\* C2: while the collected set holds fewer than Threshold texts the loop is
\* not left (other than by the end of the process), no output file is
\* written and no progress is persisted; every statement after the loop is
\* reached with at least Threshold texts.
C2_NoExitBelowThreshold ==
  [][(\/ week_files' # week_files
      \/ progress_file' # progress_file
      \/ (pc \in InLoop /\ pc' \notin InLoop \cup CutShort)
      \/ pc' \in AfterLoop)
       => Cardinality(tweets) >= Threshold]_vars

\* A window's file has been written, from a set of at least Threshold texts.
C2_Witness ==
  /\ pc = "mark"
  /\ week_files[week_file(i)].state = "ok"
  /\ Cardinality(tweets) >= Threshold

\* C3 as stated: the set holds exactly Threshold texts when the file is
\* written, and no written file has more than Threshold entries.
C3_ExactlyThreshold ==
  /\ pc \in {"open_week", "dump_week"} => Cardinality(tweets) = Threshold
  /\ \A f \in WeekFiles :
       week_files[f].state = "ok" => BagCardinality(week_files[f].data) <= Threshold

\* C3 amended: no scan starts once the set holds Threshold texts or more, and
\* the file is written from a set of at least Threshold texts; the set can
\* pass the threshold in its last scan, so a file can have more entries.
C3_NoScanAtThreshold ==
  /\ pc = "scan" => Cardinality(tweets) < Threshold
  /\ pc \in {"open_week", "dump_week"} => Cardinality(tweets) >= Threshold
  /\ pc = "mark" => BagCardinality(week_files[week_file(i)].data) >= Threshold

\* A file written with more than Threshold entries.
C3_Witness ==
  /\ pc = "mark"
  /\ BagCardinality(week_files[week_file(i)].data) > Threshold

\* C4: a written output file has no entry twice, and as many entries as the
\* collected set had texts when it was written.
C4_NoDuplicates ==
  /\ \A f \in WeekFiles :
       week_files[f].state = "ok"
         => \A e \in DOMAIN week_files[f].data : week_files[f].data[e] = 1
  /\ pc \in {"mark", "open_progress", "dump_progress"}
       => /\ week_files[week_file(i)].state = "ok"
          /\ BagCardinality(week_files[week_file(i)].data) = Cardinality(tweets)
          /\ BagToSet(week_files[week_file(i)].data) = tweets

\* A file written in this run from the set of the window in progress.
C4_Witness ==
  /\ pc = "mark"
  /\ week_files[week_file(i)].state = "ok"
  /\ BagToSet(week_files[week_file(i)].data) = tweets
  /\ tweets # {}

\* C5: when the height measured after a scroll differs from the previous
\* measurement, the stall counter is 0 at the end of the iteration.
C5_ResetOnChange ==
  (pc = "update" /\ new_height # last_height) => scroll_attempts = 0

\* An iteration that found a changed height, after a window's start.
C5_Witness ==
  /\ pc = "update"
  /\ new_height # last_height
  /\ scroll_attempts = 0
  /\ tweets # {}

\* C6: after k consecutive unchanged-height observations there have been
\* exactly k \div StallLimit pauses and the counter is k % StallLimit: a pause
\* follows every StallLimit-th observation and no other, and leaves the
\* counter at 0 with the process still in the loop.
C6_PausePerThreeStalls ==
  /\ pc \in InLoop \ {"check3"} =>
        /\ pauses = stall_run \div StallLimit
        /\ scroll_attempts = stall_run % StallLimit
  /\ pc = "check3" =>
        /\ stall_run >= 1
        /\ pauses = (stall_run - 1) \div StallLimit
        /\ scroll_attempts = ((stall_run - 1) % StallLimit) + 1
  /\ pauses > 0 => pc \in InLoop

\* Six unchanged heights in a row: two pauses, the loop still running.
C6_Witness ==
  /\ pc = "update"
  /\ stall_run = 2 * StallLimit
  /\ pauses = 2
  /\ scroll_attempts = 0

\* C7: every window that the progress file on disk marks true has its output
\* file on disk, in every state of every sequence of runs, cut short or not.
C7_MarkedHasFile ==
  \A w \in Windows :
    FileMarks(progress_file, KeyOf(w)) => week_files[week_file(w)].state # "absent"

\* A run was terminated after it had persisted a window it had collected.
C7_Witness ==
  /\ pc = "killed"
  /\ \E w \in Windows :
       /\ KeyOf(w) \in done_keys
       /\ ~IsChecked(loaded, KeyOf(w))
       /\ FileMarks(progress_file, KeyOf(w))
       /\ week_files[week_file(w)].state = "ok"

\* C8: a run that ends normally leaves every window marked true in the
\* progress file and, for every window at 0-based position w not marked at
\* startup, the file week<w+1>.json with exactly the set its loop ended with;
\* and a run ends unless it is in the loop of a window whose search shows
\* fewer than Threshold texts.
C8_CompleteRun ==
  /\ [](pc = "finished" =>
          \A w \in Windows :
            /\ FileMarks(progress_file, KeyOf(w))
            /\ ~IsChecked(loaded, KeyOf(w)) =>
                 /\ w \in DOMAIN collected
                 /\ week_files["week" \o ToString(w + 1) \o ".json"]
                      = File([e \in collected[w] |-> 1]))
  /\ (pc \in Running) ~>
       (pc \in Stopped \/ (pc \in InLoop /\ Cardinality(avail) < Threshold))

\* A run over a progress file that marked the first window only has ended
\* normally, with the second window's set in week2.json.
C8_Witness ==
  /\ pc = "finished"
  /\ IsChecked(loaded, KeyOf(0))
  /\ ~IsChecked(loaded, KeyOf(1))
  /\ 1 \in DOMAIN collected
  /\ 0 \notin DOMAIN collected
  /\ week_files["week2.json"] = File([e \in collected[1] |-> 1])
  /\ FileMarks(progress_file, KeyOf(1))

\* C9: a window whose search can show fewer than Threshold texts never leaves
\* its loop: from a statement of the loop the process goes to a statement of
\* the loop, with the same window and the same files, unless it ends.
C9_StarvedWindowNeverExits ==
  /\ []((pc \in InLoop \cup AfterLoop /\ Cardinality(avail) < Threshold)
          => (pc \in InLoop /\ Cardinality(tweets) < Threshold))
  /\ [][(pc \in InLoop /\ Cardinality(avail) < Threshold)
          => \/ pc' \in CutShort
             \/ pc' \in InLoop /\ i' = i /\ UNCHANGED << disk, done_keys, collected >>]_vars

\* A starved window that has collected all it can and paused twice, still
\* in its loop.
C9_Witness ==
  /\ pc = "while"
  /\ avail = Poor
  /\ tweets = Poor
  /\ pauses = 2

\* C10 as stated: after an external termination the progress file marks true
\* every key that was true at startup or was persisted during the run, and
\* marks a window of this run only if its output file is complete.
C10_KillKeepsProgress ==
  pc = "killed" =>
    /\ \A k \in KeyUniverse :
         (IsChecked(loaded, k) \/ k \in done_keys) => FileMarks(progress_file, k)
    /\ \A w \in Windows :
         (FileMarks(progress_file, KeyOf(w)) /\ ~IsChecked(loaded, KeyOf(w)))
           => week_files[week_file(w)].state = "ok"

\* C11: when a navigation, script or extraction call raises while window i is
\* processed, the run ends there: the files on disk are what they were before
\* the error, window i's output was not written by this run and window i is
\* not marked in the progress file, the progress file marks exactly the keys
\* that were true at startup and the windows completed before window i, and
\* the ended process takes no further step (only a new run follows).
C11_RaiseAborts ==
  [][ /\ (pc \in Running /\ pc' = "aborted") =>
           /\ pc \in DriverCalls
           /\ disk' = disk
           /\ i \notin DOMAIN collected
           /\ KeyOf(i) \notin done_keys
           /\ ~FileMarks(progress_file', KeyOf(i))
           /\ done_keys \subseteq { KeyOf(w) : w \in 0..(i - 1) }
           /\ progress_file'.state # "partial"
           /\ progress_file'.state = "absent" =>
                (done_keys = {} /\ loaded = EmptyMap)
           /\ \A k \in KeyUniverse :
                FileMarks(progress_file', k) <=>
                  (IsChecked(loaded, k) \/ k \in done_keys)
      /\ pc = "aborted" => runs' = runs + 1 ]_vars

\* An error in the second window of a run that completed the first one.
C11_Witness ==
  /\ pc = "aborted"
  /\ done_keys = {KeyOf(0)}
  /\ FileMarks(progress_file, KeyOf(0))
  /\ ~FileMarks(progress_file, KeyOf(1))
  /\ week_files[week_file(0)].state = "ok"
  /\ week_files[week_file(1)].state = "absent"

\* C12 as stated: over any sequence of runs, terminated and restarted runs
\* included, a complete output file is never changed again.
C12_WrittenOnce ==
  [][ \A w \in Windows :
        week_files[week_file(w)].state = "ok" =>
          week_files'[week_file(w)] = week_files[week_file(w)] ]_vars

\* C12, amended: within one run a window's output file is written at most
\* once (after the run has written it, no later step of the run changes it),
\* and once the progress file on disk marks a window true no run ever changes
\* that window's output file again.
C12_WrittenOncePerRun ==
  [][ \A w \in Windows :
        /\ FileMarks(progress_file, KeyOf(w)) =>
             week_files'[week_file(w)] = week_files[week_file(w)]
        /\ ( /\ pc \in Running \cup {"finished"}
             /\ w \in DOMAIN collected
             /\ ~(i = w /\ pc \in {"open_week", "dump_week"})
             /\ pc' \in Running \cup {"finished"} ) =>
             week_files'[week_file(w)] = week_files[week_file(w)] ]_vars

\* A second run has ended normally and kept the file an earlier run wrote for
\* a window that was marked when the second run started.
C12_Witness ==
  /\ runs = 2
  /\ pc = "finished"
  /\ \E w \in Windows :
       /\ IsChecked(loaded, KeyOf(w))
       /\ week_files[week_file(w)].state = "ok"
       /\ week_files[week_file(w)] # File(OldList)

\* C13: a window whose output file was left by a run that ended between
\* writing the file (line 94) and rewriting the progress file (line 98) is not
\* skipped by the next run; that run collects it again, replaces the file and
\* marks the window, and what it leaves is what a run without the earlier
\* crash leaves for the same scan results: the output file holds exactly the
\* set this run's loop ended with, whatever the file held before, and the
\* progress file marks the window; at a normal end every window that was not
\* marked at startup has been completed this way.
C13_RerunOverwrites ==
  /\ pc \in Running \cup {"finished"} =>
       \A w \in Windows :
         KeyOf(w) \in done_keys =>
           /\ w \in DOMAIN collected
           /\ week_files[week_file(w)] = File(list(collected[w]))
           /\ progress_file.state = "ok" => FileMarks(progress_file, KeyOf(w))
  /\ pc = "finished" =>
       \A w \in Windows :
         ~IsChecked(loaded, KeyOf(w)) => KeyOf(w) \in done_keys

\* The second run has collected a window again whose complete output file,
\* left by the first run, holds another set than the one collected now.
C13_Witness ==
  /\ runs = 2
  /\ pc = "open_week"
  /\ ~IsChecked(loaded, KeyOf(i))
  /\ week_files[week_file(i)].state = "ok"
  /\ week_files[week_file(i)] # File(list(tweets))

\* C14: the collected set belongs to one window: it is empty when the window's
\* collection starts, inside the window it changes only at a scan and a scan
\* only adds texts of the page shown for this window, and the file written
\* for the window holds exactly that set, so never a text seen only while
\* another window was processed.
C14_SetPerWindow ==
  /\ [](pc \in {"get", "height0"} => tweets = {})
  /\ [](pc \in InLoop \cup AfterLoop => tweets \subseteq avail)
  /\ [](pc \in {"mark", "open_progress", "dump_progress"} =>
          /\ week_files[week_file(i)].state = "ok"
          /\ BagToSet(week_files[week_file(i)].data) = tweets
          /\ collected[i] = tweets)
  /\ [][ (pc \in InWindow /\ pc' \in InWindow) =>
           /\ tweets \subseteq tweets'
           /\ tweets' \subseteq tweets \cup avail
           /\ pc # "scan" => tweets' = tweets ]_vars

\* The second window's file is written and lacks a text that the first
\* window of the same run collected.
C14_Witness ==
  /\ pc = "mark"
  /\ i = 1
  /\ 0 \in DOMAIN collected
  /\ ~(collected[0] \subseteq tweets)
  /\ BagToSet(week_files[week_file(1)].data) = tweets

\* C15: a window is passed over only when the loaded record holds its key
\* with the value true: every window the run has moved past whose key was
\* absent from the record, or present with false, was navigated to and
\* collected by this run, and completed.
C15_SkipOnlyWhenTrue ==
  pc \in Running =>
    \A w \in Windows :
      ( /\ w < i
        /\ (KeyOf(w) \notin DOMAIN loaded \/ loaded[KeyOf(w)] = FALSE) ) =>
        /\ w \in DOMAIN collected
        /\ KeyOf(w) \in done_keys

\* A window whose key was loaded with the value false has been collected.
C15_Witness ==
  /\ pc \in Running
  /\ \E w \in Windows :
       /\ w < i
       /\ KeyOf(w) \in DOMAIN loaded
       /\ loaded[KeyOf(w)] = FALSE
       /\ w \in DOMAIN collected

\* C16: the stall counter is between 0 and 3 at every point, it is 0, 1 or 2
\* at every evaluation of the loop condition (it is 3 only between the
\* increment of line 81 and the test of line 83), and it is 0 at the first
\* evaluation of the loop condition of every window, whatever value the
\* window before left in it.
C16_StallCounterBounded ==
  /\ scroll_attempts \in 0..StallLimit
  /\ pc = "while" => scroll_attempts \in 0..(StallLimit - 1)
  /\ scroll_attempts = StallLimit => pc = "check3"
  /\ (pc = "while" /\ stall_run = 0) => scroll_attempts = 0

\* The second window of a run starts its loop at 0 although the first window
\* ended its loop with the counter at 2.
C16_Witness ==
  /\ pc = "height0"
  /\ i = 1
  /\ 0 \in DOMAIN collected
  /\ scroll_attempts = StallLimit - 1

\* C17 as stated: the persisted progress record only grows. Outside the
\* rewrite of lines 98-99 itself, the progress file holds every key of the
\* record loaded at startup, with its loaded value unless the run completed
\* that window, and holds true for every window the run completed.
C17_ProgressOnlyGrows ==
  pc \notin {"idle", "dump_progress"} =>
    \A k \in DOMAIN loaded \cup done_keys :
      /\ progress_file.state = "ok"
      /\ k \in DOMAIN progress_file.data
      /\ k \in done_keys => progress_file.data[k] = TRUE
      /\ k \notin done_keys => progress_file.data[k] = loaded[k]

\* C18: the size of the set is tested only at line 66. Whatever the size
\* after a scan, the iteration goes on with the scroll, the height
\* measurement and comparison and, when the counter reaches 3, the backoff
\* pause, and only then returns to the loop test; the output file is opened
\* only from a loop test that found the set large enough; and a window's set
\* is not empty when its file is written, so at least one scan came before.
C18_TestedAtLoopHead ==
  /\ [][ /\ (pc = "scan" /\ pc' \notin CutShort) => pc' = "scroll"
         /\ (pc = "scroll" /\ pc' \notin CutShort) => pc' = "measure"
         /\ (pc = "measure" /\ pc' \notin CutShort) =>
              IF new_height' = last_height
                THEN pc' = "check3" /\ scroll_attempts' = scroll_attempts + 1
                ELSE pc' = "update"
         /\ (pc = "check3" /\ pc' \notin CutShort) =>
              /\ pc' = "update"
              /\ pauses' = IF scroll_attempts = StallLimit
                             THEN pauses + 1 ELSE pauses
         /\ (pc = "update" /\ pc' \notin CutShort) => pc' = "while"
         /\ pc' = "open_week" => (pc = "while" /\ ~LoopCond(tweets)) ]_vars
  /\ [](pc \in AfterLoop => tweets # {})
  /\ []((pc = "while" /\ tweets = {}) => LoopCond(tweets))

\* The scan of this iteration has filled the set, and the iteration is at its
\* third stall in a row, about to pause before the file is written.
C18_Witness ==
  /\ pc = "check3"
  /\ ~LoopCond(tweets)
  /\ scroll_attempts = StallLimit

====
